---- MODULE Spec2Model ----
(***************************************************************************)
(* Sparse PCA simulation notebook ("Sparse PCA.ipynb").                    *)
(*                                                                         *)
(* The notebook is a straight-line program: one data generation cell, then *)
(* for each of five methods a parameter cell and a training cell holding a *)
(* fixed-length loop.  One action models one cell, or one pass of a loop   *)
(* body.                                                                   *)
(*                                                                         *)
(* Numbers.  The notebook computes in floating point.  Here every real is  *)
(* a fixed-point integer with Scale units to 1, and every product,          *)
(* division and square root rounds its result to the nearest unit, as a    *)
(* floating-point operation rounds to the nearest representable value.     *)
(* A value that the notebook may leave as NaN (0/0, or the root of a       *)
(* negative number) is a record [nan |-> TRUE, val |-> 0].                 *)
(***************************************************************************)
EXTENDS Integers, Sequences, FiniteSets, TLC

VARIABLES
    pc,             \* position in the notebook: start, params, setup, loop, end
    method,         \* the method whose cells run next / are running, 1..5
    rng,            \* state of the random source behind np.random / torch.randn
    p, n, alpha, beta, sparsity,        \* the literals of the data cell
    sparse_vector, S, Z, X,             \* the generated data
    u, v, w,                            \* parameter vectors
    grad,                               \* the .grad fields of u, v, w
    epochs, step_size, i, iterations,   \* loop control of the running cell
    sine_errors, l1,                    \* metric traces
    output,                             \* printed progress lines
    draw,                               \* what torch.randn returned in the last parameter cell
    twin                                \* a second run, scoring against another signal vector

vars == <<pc, method, rng, p, n, alpha, beta, sparsity, sparse_vector, S, Z, X,
          u, v, w, grad, epochs, step_size, i, iterations, sine_errors, l1,
          output, draw, twin>>

-----------------------------------------------------------------------------
(* Bounds of the model *)

ScaleRoot == 300
MaxP == 2
MaxN == 2
MaxDen == 4
MaxSeed == 3
MaxEpochs == 3
XBox == 2
PsdP == 3
NormTol == 3
PrintPeriods == 2

(* Literals of the notebook *)

p_default == 50
n_default == 30
epochs_1 == 10000
epochs_2 == 100000
epochs_3 == 10000
epochs_4 == 100000
epochs_5 == 200000
interval_1 == 100
interval_2 == 1000
interval_3 == 100
interval_4 == 1000
interval_5 == 1000

\* units to 1
Scale == ScaleRoot * ScaleRoot
\* products below this stay inside the integers of the checker
DivLimit == 2147483647 \div ScaleRoot
One == Scale
alpha_default == (8 * Scale) \div 10
beta_default == (2 * Scale) \div 10
sparsity_default == [num |-> 3, den |-> 10]

-----------------------------------------------------------------------------
(* Rounded arithmetic *)

Abs(a) == IF a < 0 THEN -a ELSE a
Min(a, b) == IF a < b THEN a ELSE b

\* a / b rounded to the nearest integer, b > 0
Rnd(a, b) == (a + (b \div 2)) \div b

\* a * b.  Both factors are split at ScaleRoot, so that no partial product
\* leaves the integers of the checker; the result is (a * b) / Scale rounded
\* to the nearest unit.
FMul(a, b) ==
    LET a1 == a \div ScaleRoot
        a0 == a % ScaleRoot
        b1 == b \div ScaleRoot
        b0 == b % ScaleRoot
        mid == a1 * b0 + a0 * b1
    IN  a1 * b1 + (mid \div ScaleRoot)
          + Rnd((mid % ScaleRoot) * ScaleRoot + a0 * b0, Scale)

\* a / b for b > 0: long division of a * Scale by b, two digits of ScaleRoot
PosDiv(a, b) ==
    IF b < DivLimit
    THEN LET t1 == (a % b) * ScaleRoot
             t2 == (t1 % b) * ScaleRoot
         IN  (a \div b) * Scale + (t1 \div b) * ScaleRoot + Rnd(t2, b)
    ELSE LET b2 == b \div ScaleRoot
         IN  (a \div b2) * ScaleRoot + Rnd((a % b2) * ScaleRoot, b2)

\* a / b, b # 0
FDiv(a, b) == IF b > 0 THEN PosDiv(a, b) ELSE PosDiv(-a, -b)

\* floor(a * Scale / b) for a >= 0 and 0 < b < DivLimit / ScaleRoot
FloorDiv(a, b) ==
    LET t1 == (a % b) * ScaleRoot
        t2 == (t1 % b) * ScaleRoot
    IN  (a \div b) * Scale + (t1 \div b) * ScaleRoot + (t2 \div b)

RECURSIVE ISqrtIter(_, _)
ISqrtIter(x, r) ==
    LET r2 == (r + (x \div r)) \div 2
    IN  IF r2 >= r THEN r ELSE ISqrtIter(x, r2)

\* the integer square root of x >= 0
ISqrt(x) == IF x = 0 THEN 0 ELSE ISqrtIter(x, x)

RECURSIVE FSqrtIter(_, _)
FSqrtIter(x, r) ==
    LET r2 == (r + FloorDiv(x, r)) \div 2
    IN  IF r2 >= r THEN r ELSE FSqrtIter(x, r2)

\* a ** 0.5, a >= 0: Newton's iteration for floor(sqrt(a * Scale)), then the
\* remainder a * Scale - y * y decides between y and y + 1
FSqrt(a) ==
    IF a = 0 THEN 0
    ELSE LET y == FSqrtIter(a, (ISqrt(a) + 1) * ScaleRoot)
             y1 == y \div ScaleRoot
             y0 == y % ScaleRoot
             rem == ((a - y1 * y1) * ScaleRoot - 2 * y1 * y0) * ScaleRoot - y0 * y0
         IN  IF rem > y THEN y + 1 ELSE y

RECURSIVE SumTo(_, _)
SumTo(f, k) == IF k = 0 THEN 0 ELSE f[k] + SumTo(f, k - 1)
\* torch.sum of a vector held as a function on 1..k
Sum(f) == SumTo(f, Len(f))

Dot(a, b) == Sum([j \in 1..Len(a) |-> FMul(a[j], b[j])])
\* torch.norm: the 2-norm
Norm(a) == FSqrt(Sum([j \in 1..Len(a) |-> FMul(a[j], a[j])]))
\* torch.linalg.norm(., ord=1)
Norm1(a) == Sum([j \in 1..Len(a) |-> Abs(a[j])])
\* elementwise product a * b
Had(a, b) == [j \in 1..Len(a) |-> FMul(a[j], b[j])]

-----------------------------------------------------------------------------
(* Random source *)

RandVals == <<One, -One, 2 * One, -(One \div 2), One + One \div 2, -2 * One>>

\* the k-th value drawn after the source was in state r
RandAt(r, k) == RandVals[((r * 5 + k * 3 + (k * k) \div 2) % Len(RandVals)) + 1]
\* a vector of len draws
RandVec(r, len) == [j \in 1..len |-> RandAt(r, j)]
\* the source after len draws
RandSkip(r, len) == (r + len) % (MaxSeed + 1)

-----------------------------------------------------------------------------
(* Data generation cell *)

\* the test of the loop that fills sparse_vector: i < p * sparsity, for the
\* 0-based index idx
IsActive_le(idx, pp, sp) == idx * sp.den <= pp * sp.num

\* if i < p * sparsity
IsActive(idx, pp, sp) == idx * sp.den < pp * sp.num

MakeSparseVector_half(pp, sp) ==
    [j \in 1..pp |-> IF 2 * (j - 1) < pp THEN One ELSE 0]

MakeSparseVector(pp, sp) ==
    [j \in 1..pp |-> IF IsActive(j - 1, pp, sp) THEN One ELSE 0]

MakeS_onesided(pp, a, b, sv) ==
    [r \in 1..pp |-> [c \in 1..pp |->
        FMul(a, sv[r]) + (IF r = c THEN b ELSE 0)]]

\* S = alpha * sparse_vector @ sparse_vector.T + beta * np.identity(p)
MakeS(pp, a, b, sv) ==
    [r \in 1..pp |-> [c \in 1..pp |->
        FMul(a, FMul(sv[r], sv[c])) + (IF r = c THEN b ELSE 0)]]

MakeZ(nn, pp, r) ==
    [row \in 1..nn |-> [c \in 1..pp |-> RandAt(r, (row - 1) * pp + c)]]

\* X = Z @ S
MatMul(A, B, rows, inner, cols) ==
    [r \in 1..rows |-> [c \in 1..cols |->
        Sum([k \in 1..inner |-> FMul(A[r][k], B[k][c])])]]

\* the signal vectors a second run may score against: k leading ones
Signals(pp) ==
    {[j \in 1..pp |-> IF j <= k THEN One ELSE 0] : k \in 0..Min(pp, MaxP)}

NoGrad == [u |-> <<>>, v |-> <<>>, w |-> <<>>]

NoRun == [sparse_vector |-> <<>>, u |-> <<>>, v |-> <<>>, w |-> <<>>, grad |-> NoGrad,
          sine_errors |-> <<>>, l1 |-> <<>>]

GenerateData ==
    /\ pc = "start"
    /\ sparse_vector' = MakeSparseVector(p, sparsity)
    /\ S' = MakeS(p, alpha, beta, sparse_vector')
    /\ Z' = MakeZ(n, p, rng)
    /\ X' = MatMul(Z', S', n, p, p)
    /\ rng' = RandSkip(rng, n * p)
    /\ \E other \in Signals(p) :
          twin' = [twin EXCEPT !.sparse_vector = other]
    /\ pc' = "params"
    /\ method' = 1
    /\ UNCHANGED <<p, n, alpha, beta, sparsity, u, v, w, grad, epochs, step_size,
                   i, iterations, sine_errors, l1, output, draw>>

-----------------------------------------------------------------------------
(* Floating-point scalars that may be NaN *)

NaN == [nan |-> TRUE, val |-> 0]
FV(x) == [nan |-> FALSE, val |-> x]

\* An entry of a tensor that is inf or nan, the outcome of a division by a
\* zero norm, and the tensors that hold one
NotFinite == -(DivLimit * ScaleRoot)
Finite(a) == \A j \in 1..Len(a) : a[j] # NotFinite
NotFiniteVec(len) == [j \in 1..len |-> NotFinite]

-----------------------------------------------------------------------------
(* A run: the parameters, their gradients and the traces of one method,    *)
(* with the signal vector its metrics are scored against.                  *)

Run == [sparse_vector |-> sparse_vector, u |-> u, v |-> v, w |-> w, grad |-> grad,
        sine_errors |-> sine_errors, l1 |-> l1]

VAdd(a, b) == [j \in 1..Len(a) |-> a[j] + b[j]]
VSub(a, b) == [j \in 1..Len(a) |-> a[j] - b[j]]
Zeros(len) == [j \in 1..len |-> 0]

\* recovered = v * w, v * v - w * w, or u * v
Recovered(m, rr) ==
    CASE m \in {1, 2} -> Had(rr.v, rr.w)
      [] m \in {3, 4} -> VSub(Had(rr.v, rr.v), Had(rr.w, rr.w))
      [] OTHER        -> IF Finite(rr.u) /\ Finite(rr.v) THEN Had(rr.u, rr.v)
                         ELSE NotFiniteVec(Len(rr.u))

CosineError_guarded(rec, sv) ==
    IF ~Finite(rec) THEN FV(0)
    ELSE LET d == FMul(Norm(rec), Norm(sv))
         IN  IF d = 0 THEN FV(0) ELSE FV(FDiv(Sum(Had(rec, sv)), d))

\* cosine_error = torch.sum(recovered * sparse_vector)
\*                  / (torch.norm(recovered) * torch.norm(sparse_vector))
\* sine_error   = (1 - cosine_error ** 2) ** 0.5
CosineError(rec, sv) ==
    IF ~Finite(rec) THEN NaN
    ELSE LET d == FMul(Norm(rec), Norm(sv))
         IN  IF d = 0 THEN NaN ELSE FV(FDiv(Sum(Had(rec, sv)), d))

SineError(rec, sv) ==
    LET c == CosineError(rec, sv)
        q == One - FMul(c.val, c.val)
    IN  IF c.nan \/ q < 0 THEN NaN ELSE FV(FSqrt(q))

\* the two appends that follow every computation of recovered
Record(m, rr) ==
    LET rec == Recovered(m, rr)
    IN  [rr EXCEPT !.sine_errors = Append(@, SineError(rec, rr.sparse_vector)),
                   !.l1 = Append(@, IF Finite(rec) THEN Norm1(rec) ELSE NotFinite)]

-----------------------------------------------------------------------------
(* Parameter cells *)

USize(m) == IF m \in {1, 3} THEN n ELSE p

Renormalise_noroot(uu, vv) ==
    LET norm == Norm(Had(uu, vv))
    IN  [u |-> [j \in 1..Len(uu) |-> FDiv(uu[j], norm)],
         v |-> [j \in 1..Len(vv) |-> FDiv(vv[j], norm)]]

\* norm = torch.norm(u * v); u = u / (norm ** 0.5); v = v / (norm ** 0.5)
Renormalise(uu, vv) ==
    LET norm == IF Finite(uu) /\ Finite(vv) THEN Norm(Had(uu, vv)) ELSE 0
        r == FSqrt(norm)
    IN  IF r = 0
        THEN [u |-> NotFiniteVec(Len(uu)), v |-> NotFiniteVec(Len(vv))]
        ELSE [u |-> [j \in 1..Len(uu) |-> FDiv(uu[j], r)],
              v |-> [j \in 1..Len(vv) |-> FDiv(vv[j], r)]]

ParamCell_stale(m, rr, d) ==
    IF m = 5
    THEN LET nm == Renormalise(d.u, d.v)
         IN  [rr EXCEPT !.u = nm.u, !.v = nm.v,
                        !.grad.u = <<>>, !.grad.v = <<>>]
    ELSE [rr EXCEPT !.u = d.u, !.v = d.v, !.w = IF m = 1 THEN d.w ELSE @,
                    !.grad = NoGrad]

\* the tensors a parameter cell leaves, from the draws d
ParamCell(m, rr, d) ==
    IF m = 5
    THEN LET nm == Renormalise(d.u, d.v)
         IN  [rr EXCEPT !.u = nm.u, !.v = nm.v,
                        !.grad.u = <<>>, !.grad.v = <<>>]
    ELSE [rr EXCEPT !.u = d.u, !.v = d.v, !.w = d.w,
                    !.grad = NoGrad]

Draws(m, r) ==
    [u |-> RandVec(r, USize(m)),
     v |-> RandVec(r + USize(m), p),
     w |-> IF m = 5 THEN <<>> ELSE RandVec(r + USize(m) + p, p)]

SetRun(rr, tw) ==
    /\ u' = rr.u /\ v' = rr.v /\ w' = rr.w /\ grad' = rr.grad
    /\ sine_errors' = rr.sine_errors /\ l1' = rr.l1
    /\ twin' = tw

InitParams ==
    /\ pc = "params"
    /\ draw' = Draws(method, rng)
    /\ rng' = RandSkip(rng, USize(method) + p + (IF method = 5 THEN 0 ELSE p))
    /\ SetRun(ParamCell(method, Run, draw'), ParamCell(method, twin, draw'))
    /\ pc' = "setup"
    /\ UNCHANGED <<method, p, n, alpha, beta, sparsity, sparse_vector, S, Z, X,
                   epochs, step_size, i, iterations, output>>

-----------------------------------------------------------------------------
(* Training cells: the lines before the loop *)

EpochsOf(m) ==
    CASE m = 1 -> epochs_1 [] m = 2 -> epochs_2 [] m = 3 -> epochs_3
      [] m = 4 -> epochs_4 [] OTHER -> epochs_5

\* the loop length, capped
Budget(m) == Min(EpochsOf(m), MaxEpochs)

StepSizeOf(m) ==
    CASE m \in {1, 3} -> [num |-> 1, den |-> 10000]
      [] m \in {2, 4} -> [num |-> 5, den |-> 10000000]
      [] OTHER        -> [num |-> 1, den |-> 100000]

IntervalOf_hundred(m) == interval_1

\* if i % 100 == 0 / if i % 1000 == 0
IntervalOf(m) ==
    CASE m = 1 -> interval_1 [] m = 2 -> interval_2 [] m = 3 -> interval_3
      [] m = 4 -> interval_4 [] OTHER -> interval_5

\* sine_errors = []; l1 = []; recovered = ...; the two appends
SetupRun(m, rr) == Record(m, [rr EXCEPT !.sine_errors = <<>>, !.l1 = <<>>])

TrainSetup ==
    /\ pc = "setup"
    /\ epochs' = Budget(method)
    /\ step_size' = StepSizeOf(method)
    /\ iterations' = [k \in 1..(epochs' + 1) |-> k - 1]
    /\ SetRun(SetupRun(method, Run), SetupRun(method, twin))
    /\ i' = 0
    /\ pc' = "loop"
    /\ UNCHANGED <<method, rng, p, n, alpha, beta, sparsity, sparse_vector, S, Z, X,
                   output, draw>>

-----------------------------------------------------------------------------
(* Methods 1-4: objective, backward pass, gradient step *)

\* X @ u for methods 2 and 4, u itself for methods 1 and 3
Left(m, Xd, uu) ==
    IF m \in {1, 3} THEN uu
    ELSE [a \in 1..Len(Xd) |-> Sum([k \in 1..Len(uu) |-> FMul(Xd[a][k], uu[k])])]

\* A = X - left @ recovered.T
Residual(m, Xd, rr) ==
    LET t == Left(m, Xd, rr.u)
        r == Recovered(m, rr)
    IN  [a \in 1..Len(Xd) |-> [b \in 1..Len(r) |-> Xd[a][b] - FMul(t[a], r[b])]]

\* objective_function_m(u, v, w) = torch.sum(A * A)
Objective(m, Xd, rr) ==
    LET A == Residual(m, Xd, rr)
    IN  Sum([a \in 1..Len(A) |-> Sum([b \in 1..Len(A[a]) |-> FMul(A[a][b], A[a][b])])])

\* the gradient of the objective in u, v, w
Gradient(m, Xd, rr) ==
    LET t == Left(m, Xd, rr.u)
        r == Recovered(m, rr)
        A == Residual(m, Xd, rr)
        dt == [a \in 1..Len(t) |-> -2 * Sum([b \in 1..Len(r) |-> FMul(A[a][b], r[b])])]
        dr == [b \in 1..Len(r) |-> -2 * Sum([a \in 1..Len(t) |-> FMul(A[a][b], t[a])])]
        du == IF m \in {1, 3} THEN dt
              ELSE [k \in 1..Len(rr.u) |->
                        Sum([a \in 1..Len(t) |-> FMul(Xd[a][k], dt[a])])]
        dv == IF m \in {1, 2}
              THEN [b \in 1..Len(r) |-> FMul(dr[b], rr.w[b])]
              ELSE [b \in 1..Len(r) |-> FMul(dr[b], 2 * rr.v[b])]
        dw == IF m \in {1, 2}
              THEN [b \in 1..Len(r) |-> FMul(dr[b], rr.v[b])]
              ELSE [b \in 1..Len(r) |-> -FMul(dr[b], 2 * rr.w[b])]
    IN  [u |-> du, v |-> dv, w |-> dw]

\* objective.backward(): each gradient is added to the tensor's .grad
Accumulate(old, g) == IF old = <<>> THEN g ELSE VAdd(old, g)

Backward(m, Xd, rr) ==
    LET g == Gradient(m, Xd, rr)
    IN  [rr EXCEPT !.grad = [u |-> Accumulate(rr.grad.u, g.u),
                             v |-> Accumulate(rr.grad.v, g.v),
                             w |-> Accumulate(rr.grad.w, g.w)]]

\* x * step_size
Scaled(x, step) ==
    (x \div step.den) * step.num + Rnd((x % step.den) * step.num, step.den)

\* param -= param.grad * step_size
Descend(param, g, step) == [j \in 1..Len(param) |-> param[j] - Scaled(g[j], step)]

GradientStep_leak(rr, step) ==
    [rr EXCEPT !.u = Descend(rr.u, rr.grad.u, step),
               !.v = Descend(rr.v, VSub(rr.grad.v, rr.sparse_vector), step),
               !.w = Descend(rr.w, rr.grad.w, step),
               !.grad = [u |-> Zeros(Len(rr.u)), v |-> Zeros(Len(rr.v)),
                         w |-> Zeros(Len(rr.w))]]

GradientStep_nozero(rr, step) ==
    [rr EXCEPT !.u = Descend(rr.u, rr.grad.u, step),
               !.v = Descend(rr.v, rr.grad.v, step),
               !.w = Descend(rr.w, rr.grad.w, step)]

\* the torch.no_grad() block: three updates, three zero_()
GradientStep(rr, step) ==
    [rr EXCEPT !.u = Descend(rr.u, rr.grad.u, step),
               !.v = Descend(rr.v, rr.grad.v, step),
               !.w = Descend(rr.w, rr.grad.w, step),
               !.grad = [u |-> Zeros(Len(rr.u)), v |-> Zeros(Len(rr.v)),
                         w |-> Zeros(Len(rr.w))]]

\* v.grad.zero_(); w.grad.zero_() closing the loop body of Method 1
ExtraZero(m, rr) ==
    IF m = 1 THEN [rr EXCEPT !.grad.v = Zeros(Len(rr.v)), !.grad.w = Zeros(Len(rr.w))]
    ELSE rr

DescentBody_stale(m, Xd, step, rr) ==
    ExtraZero(m, GradientStep(Record(m, Backward(m, Xd, rr)), step))

\* one pass of the loop body of methods 1-4
DescentBody(m, Xd, step, rr) ==
    ExtraZero(m, Record(m, GradientStep(Backward(m, Xd, rr), step)))

LoopContinues_converged(idx, ep) ==
    idx < ep /\ (IF idx = 0 THEN TRUE ELSE l1[Len(l1)] # l1[Len(l1) - 1])

\* for i in range(epochs): another pass follows while i < epochs
LoopContinues(idx, ep) == idx < ep

Line(m, epoch, value) == [method |-> m, epoch |-> epoch, value |-> value]

DescentIter ==
    /\ pc = "loop"
    /\ method \in 1..4
    /\ LoopContinues(i, epochs)
    /\ output' = IF i % IntervalOf(method) = 0
                 THEN Append(output, Line(method, i, Objective(method, X, Run)))
                 ELSE output
    /\ SetRun(DescentBody(method, X, step_size, Run),
              DescentBody(method, X, step_size, twin))
    /\ i' = i + 1
    /\ UNCHANGED <<pc, method, rng, p, n, alpha, beta, sparsity, sparse_vector, S, Z, X,
                   epochs, step_size, iterations, draw>>

-----------------------------------------------------------------------------
(* Hadamard parametrization: ascent step, renormalisation *)

\* the matrix of the objective and of the update direction
\* "S = (1/n) X^T X" of the text above the Hadamard cells
SampleCovariance(Xd, nn) ==
    [a \in 1..p |-> [b \in 1..p |->
        FDiv(Sum([k \in 1..nn |-> FMul(Xd[k][a], Xd[k][b])]), nn * One)]]

\* the matrix the Hadamard loop multiplies by
HadamardMatrix == S

\* ((u * v).T @ M @ (u * v))[0][0]
Quadratic(M, rr) ==
    LET r == Recovered(5, rr)
    IN  IF ~Finite(r) THEN NotFinite
        ELSE Sum([a \in 1..Len(r) |->
                 FMul(r[a], Sum([b \in 1..Len(r) |-> FMul(M[a][b], r[b])]))])

\* (S + S.T) @ (u * v)
Direction(M, rr) ==
    LET r == Had(rr.u, rr.v)
    IN  [a \in 1..Len(r) |-> Sum([b \in 1..Len(r) |-> FMul(M[a][b] + M[b][a], r[b])])]

\* param += d * step_size
Ascend(param, d, step) == [j \in 1..Len(param) |-> param[j] + Scaled(d[j], step)]

AscentStep_sequential(M, step, rr) ==
    LET q == Direction(M, rr)
        du == Had(rr.v, q)
        u1 == Ascend(rr.u, du, step)
        dv == Had(u1, Direction(M, [rr EXCEPT !.u = u1]))
    IN  [rr EXCEPT !.u = u1, !.v = Ascend(rr.v, dv, step)]

\* du, dv from the same u and v; then both updates
AscentStep(M, step, rr) ==
    IF ~(Finite(rr.u) /\ Finite(rr.v)) THEN rr
    ELSE LET q == Direction(M, rr)
             du == Had(rr.v, q)
             dv == Had(rr.u, q)
         IN  [rr EXCEPT !.u = Ascend(rr.u, du, step), !.v = Ascend(rr.v, dv, step)]

Projected(rr) ==
    LET nm == Renormalise(rr.u, rr.v)
    IN  [rr EXCEPT !.u = nm.u, !.v = nm.v]

\* one pass of the loop body of the Hadamard cell
HadamardBody(M, step, rr) == Record(5, Projected(AscentStep(M, step, rr)))

HadamardIter ==
    /\ pc = "loop"
    /\ method = 5
    /\ LoopContinues(i, epochs)
    /\ output' = IF i % IntervalOf(method) = 0
                 THEN Append(output, Line(method, i, Quadratic(HadamardMatrix, Run)))
                 ELSE output
    /\ SetRun(HadamardBody(HadamardMatrix, step_size, Run),
              HadamardBody(HadamardMatrix, step_size, twin))
    /\ i' = i + 1
    /\ UNCHANGED <<pc, method, rng, p, n, alpha, beta, sparsity, sparse_vector, S, Z, X,
                   epochs, step_size, iterations, draw>>

-----------------------------------------------------------------------------
(* The line after the loop *)

FinalValue(m) == IF m = 5 THEN Quadratic(HadamardMatrix, Run) ELSE Objective(m, X, Run)

TrainFinish ==
    /\ pc = "loop"
    /\ ~LoopContinues(i, epochs)
    /\ output' = Append(output, Line(method, epochs, FinalValue(method)))
    /\ pc' = IF method = 5 THEN "end" ELSE "params"
    /\ method' = IF method = 5 THEN method ELSE method + 1
    /\ UNCHANGED <<rng, p, n, alpha, beta, sparsity, sparse_vector, S, Z, X, u, v, w,
                   grad, epochs, step_size, i, iterations, sine_errors, l1, draw, twin>>

-----------------------------------------------------------------------------
(* Initial states: the literals of the data cell, and an unseeded source *)

Fractions == {[num |-> a, den |-> b] : a \in 0..MaxDen, b \in 1..MaxDen}
Sparsities == {f \in Fractions : f.num <= f.den} \cup {sparsity_default}

Config(pp, nn, a, b, sp) == [p |-> pp, n |-> nn, alpha |-> a, beta |-> b, sparsity |-> sp]

DefaultConfig == Config(p_default, n_default, alpha_default, beta_default, sparsity_default)

InitWith(configs) ==
    /\ pc = "start"
    /\ method = 0
    /\ rng \in 0..MaxSeed
    /\ \E c \in configs :
          /\ p = c.p /\ n = c.n /\ alpha = c.alpha /\ beta = c.beta
          /\ sparsity = c.sparsity
    /\ sparse_vector = <<>> /\ S = <<>> /\ Z = <<>> /\ X = <<>>
    /\ u = <<>> /\ v = <<>> /\ w = <<>>
    /\ grad = NoGrad
    /\ epochs = 0 /\ step_size = [num |-> 0, den |-> 1] /\ i = 0
    /\ iterations = <<>>
    /\ sine_errors = <<>> /\ l1 = <<>>
    /\ output = <<>>
    /\ draw = NoGrad
    /\ twin = NoRun

\* the data cell alone, over many settings of its literals
GenConfigs ==
    {Config(pp, nn, a, b, sp) :
        pp \in 1..(MaxP + 2), nn \in {1},
        a \in {-alpha_default, 0, alpha_default},
        b \in {-beta_default, 0, beta_default},
        sp \in Sparsities}
    \cup {DefaultConfig}

GenInit == InitWith(GenConfigs)
GenNext == GenerateData
SpecGen == GenInit /\ [][GenNext]_vars

\* the whole notebook, on small data
RunConfigs ==
    {Config(pp, nn, alpha_default, beta_default, sp) :
        pp \in 1..MaxP, nn \in 1..MaxN, sp \in {f \in Sparsities : f.den \in {1, 2}}}

Init == InitWith(RunConfigs)
Next ==
    \/ GenerateData
    \/ InitParams
    \/ TrainSetup
    \/ DescentIter
    \/ HadamardIter
    \/ TrainFinish
Spec == Init /\ [][Next]_vars

\* the metric lines alone: the state before a training cell, the parameter
\* vectors being any values torch.randn may have returned
MetricVals == {-One, One, 2 * One}

MetricInit ==
    /\ pc = "setup"
    /\ method \in {1, 3}
    /\ rng \in {0}
    /\ p \in 1..MaxP /\ n = 1 /\ alpha = alpha_default /\ beta = beta_default
    /\ sparsity \in {f \in Sparsities : f.den \in {1, 2}}
    /\ sparse_vector = MakeSparseVector(p, sparsity)
    /\ S = MakeS(p, alpha, beta, sparse_vector)
    /\ Z = MakeZ(n, p, rng)
    /\ X = MatMul(Z, S, n, p, p)
    /\ u = RandVec(rng, n)
    /\ v \in [1..p -> MetricVals]
    /\ w \in [1..p -> MetricVals]
    /\ grad = NoGrad
    /\ epochs = 0 /\ step_size = [num |-> 0, den |-> 1] /\ i = 0
    /\ iterations = <<>>
    /\ sine_errors = <<>> /\ l1 = <<>>
    /\ output = <<>>
    /\ draw = [u |-> u, v |-> v, w |-> w]
    /\ twin = [NoRun EXCEPT !.sparse_vector = sparse_vector, !.u = u, !.v = v, !.w = w]

MetricNext == TrainSetup
SpecMetric == MetricInit /\ [][MetricNext]_vars

\* the same metric lines for a parameter vector and a multiple of it: the
\* second run holds c * v, so that its recovered vector is c * (v * w)
Scalars == {-1, 7, -7}

Multiple(c, a) == [j \in 1..Len(a) |-> c * a[j]]

ScaleInit ==
    /\ pc = "setup"
    /\ method = 1
    /\ rng \in {0}
    /\ p \in 1..MaxP /\ n = 1 /\ alpha = alpha_default /\ beta = beta_default
    /\ sparsity \in {f \in Sparsities : f.den \in {1, 2}}
    /\ sparse_vector = MakeSparseVector(p, sparsity)
    /\ S = MakeS(p, alpha, beta, sparse_vector)
    /\ Z = MakeZ(n, p, rng)
    /\ X = MatMul(Z, S, n, p, p)
    /\ u = RandVec(rng, n)
    /\ v \in [1..p -> MetricVals \cup {0}]
    /\ w \in [1..p -> MetricVals]
    /\ grad = NoGrad
    /\ epochs = 0 /\ step_size = [num |-> 0, den |-> 1] /\ i = 0
    /\ iterations = <<>>
    /\ sine_errors = <<>> /\ l1 = <<>>
    /\ output = <<>>
    /\ draw = [u |-> u, v |-> v, w |-> w]
    /\ \E c \in Scalars :
          twin = [NoRun EXCEPT !.sparse_vector = sparse_vector, !.u = u,
                               !.v = Multiple(c, v), !.w = w]

ScaleNext == TrainSetup
SpecScale == ScaleInit /\ [][ScaleNext]_vars

\* the Hadamard loop alone: the state when the loop is entered, for the
\* step size of the cell and for a coarser one, at which one pass moves the
\* parameters by more than the rounding unit
StepSizes == {StepSizeOf(5), [num |-> 1, den |-> 10]}

AscentInit ==
    /\ pc = "loop"
    /\ method = 5
    /\ rng \in {0}
    /\ p \in 1..MaxP /\ n = 1 /\ alpha = alpha_default /\ beta = beta_default
    /\ sparsity \in {f \in Sparsities : f.den \in {1, 2}}
    /\ sparse_vector = MakeSparseVector(p, sparsity)
    /\ S = MakeS(p, alpha, beta, sparse_vector)
    /\ Z = MakeZ(n, p, rng)
    /\ X = MatMul(Z, S, n, p, p)
    /\ \E du \in [1..p -> MetricVals], dv \in [1..p -> MetricVals] :
          /\ draw = [u |-> du, v |-> dv, w |-> <<>>]
          /\ u = Renormalise(du, dv).u
          /\ v = Renormalise(du, dv).v
    /\ w = <<>>
    /\ grad = NoGrad
    /\ epochs = Budget(5) /\ step_size \in StepSizes /\ i = 0
    /\ iterations = [k \in 1..(epochs + 1) |-> k - 1]
    /\ sine_errors = <<SineError(Had(u, v), sparse_vector)>>
    /\ l1 = <<Norm1(Had(u, v))>>
    /\ output = <<>>
    /\ twin = Run

AscentNext == HadamardIter \/ TrainFinish
SpecAscent == AscentInit /\ [][AscentNext]_vars

\* the loops alone, long enough to pass their print interval: the state when
\* a loop is entered, with epochs capped at PrintPeriods intervals and one
\* more pass
PrintBudget(m) == Min(EpochsOf(m), PrintPeriods * IntervalOf(m) + 1)

PrintInit ==
    /\ pc = "loop"
    /\ method \in 1..5
    /\ rng \in {0}
    /\ p \in 1..MaxP /\ n = 1 /\ alpha = alpha_default /\ beta = beta_default
    /\ sparsity = [num |-> 1, den |-> 2]
    /\ sparse_vector = MakeSparseVector(p, sparsity)
    /\ S = MakeS(p, alpha, beta, sparse_vector)
    /\ Z = MakeZ(n, p, rng)
    /\ X = MatMul(Z, S, n, p, p)
    /\ draw = Draws(method, rng)
    /\ u = ParamCell(method, NoRun, draw).u
    /\ v = ParamCell(method, NoRun, draw).v
    /\ w = ParamCell(method, NoRun, draw).w
    /\ grad = NoGrad
    /\ epochs = PrintBudget(method) /\ step_size = StepSizeOf(method) /\ i = 0
    /\ iterations = [k \in 1..(epochs + 1) |-> k - 1]
    /\ sine_errors = <<SineError(Recovered(method, [NoRun EXCEPT !.u = u, !.v = v, !.w = w]),
                                 sparse_vector)>>
    /\ l1 = <<Norm1(Recovered(method, [NoRun EXCEPT !.u = u, !.v = v, !.w = w]))>>
    /\ output = <<>>
    /\ twin = Run

PrintNext == DescentIter \/ HadamardIter \/ TrainFinish
SpecPrint == PrintInit /\ [][PrintNext]_vars

\* the training cells from parameter tensors that may hold zeros, so that
\* the recovered vector may have norm zero
ZeroVals == {0, One, -One}

ZeroInit ==
    /\ pc = "setup"
    /\ method \in 1..5
    /\ rng \in {0}
    /\ p \in 1..MaxP /\ n = 1 /\ alpha = alpha_default /\ beta = beta_default
    /\ sparsity = [num |-> 1, den |-> 1]
    /\ sparse_vector = MakeSparseVector(p, sparsity)
    /\ S = MakeS(p, alpha, beta, sparse_vector)
    /\ Z = MakeZ(n, p, rng)
    /\ X = MatMul(Z, S, n, p, p)
    /\ \E dv \in [1..p -> ZeroVals], dw \in [1..p -> ZeroVals] :
          /\ draw = [u |-> RandVec(rng, USize(method)), v |-> dv,
                     w |-> IF method = 5 THEN <<>> ELSE dw]
          /\ u = ParamCell(method, NoRun, draw).u
          /\ v = ParamCell(method, NoRun, draw).v
          /\ w = ParamCell(method, NoRun, draw).w
    /\ grad = NoGrad
    /\ epochs = 0 /\ step_size = [num |-> 0, den |-> 1] /\ i = 0
    /\ iterations = <<>>
    /\ sine_errors = <<>> /\ l1 = <<>>
    /\ output = <<>>
    /\ twin = Run

ZeroNext == TrainSetup \/ DescentIter \/ HadamardIter \/ TrainFinish
SpecZero == ZeroInit /\ [][ZeroNext]_vars

-----------------------------------------------------------------------------
(* Properties of the data generation cell *)

Generated == pc # "start"

Floor(sp, pp) == (pp * sp.num) \div sp.den
Ceil(sp, pp) == (pp * sp.num + sp.den - 1) \div sp.den
LeadingOnes(pp, k) == [j \in 1..pp |-> IF j <= k THEN One ELSE 0]

\* C1 as stated: the signal vector is floor(p * sparsity) leading ones, then
\* zeros, for every p >= 1 and sparsity in [0, 1].
C1_FloorCount == Generated => sparse_vector = LeadingOnes(p, Floor(sparsity, p))

\* C1 amended: the signal vector is ceil(p * sparsity) leading ones, then
\* zeros: index i is active exactly when i < p * sparsity.
C1_CeilCount == Generated => sparse_vector = LeadingOnes(p, Ceil(sparsity, p))

C1_Witness ==
    /\ Generated /\ p >= 3
    /\ (p * sparsity.num) % sparsity.den # 0
    /\ sparse_vector = LeadingOnes(p, 2)

\* C10: with p = 50, n = 30, alpha = 0.8, beta = 0.2, sparsity = 0.3 the
\* signal vector has ones at indices 0..14 and zeros at indices 15..49.
C10_DefaultSignal ==
    (Generated /\ p = p_default /\ n = n_default /\ alpha = alpha_default
       /\ beta = beta_default /\ sparsity = sparsity_default)
    => /\ Len(sparse_vector) = 50
       /\ \A idx \in 0..49 : sparse_vector[idx + 1] = IF idx <= 14 THEN One ELSE 0

C10_Witness ==
    /\ Generated /\ p = p_default /\ n = n_default /\ sparsity = sparsity_default
    /\ sparse_vector[15] = One /\ sparse_vector[16] = 0

\* x^T S x for an integer vector x
QuadraticForm(M, x) ==
    Sum([a \in 1..Len(x) |-> Sum([b \in 1..Len(x) |-> x[a] * M[a][b] * x[b]])])

Box(pp) == [1..pp -> (-XBox)..XBox]

\* C6: whenever alpha >= 0 and beta >= 0, S is symmetric, and x^T S x >= 0
\* for every x (every integer x of the box, for the dimensions up to
\* PsdP).
C6_SymmetricPSD ==
    (Generated /\ alpha >= 0 /\ beta >= 0)
    => /\ \A a, b \in 1..p : S[a][b] = S[b][a]
       /\ p <= PsdP => \A x \in Box(p) : QuadraticForm(S, x) >= 0

C6_Witness ==
    /\ Generated /\ alpha > 0 /\ beta > 0 /\ p >= 3
    /\ sparse_vector = LeadingOnes(p, 2)
    /\ S[1][2] = alpha /\ S[1][3] = 0 /\ S[3][3] = beta

-----------------------------------------------------------------------------
(* Properties of the training cells *)

Training == pc = "loop"
Finished == pc = "end" \/ (pc = "params" /\ method >= 2)
FinishedMethod == IF pc = "end" THEN 5 ELSE method - 1
Iterate == DescentIter \/ HadamardIter
Current == Recovered(method, Run)
IsPrefix(a, b) == Len(a) <= Len(b) /\ SubSeq(b, 1, Len(a)) = a

BudgetShape ==
    /\ Training => /\ epochs = Budget(method) /\ i \in 0..epochs
                   /\ LoopContinues(i, epochs) <=> i < epochs
    /\ Finished => /\ i = epochs /\ epochs = Budget(FinishedMethod)
                   /\ Len(l1) = epochs + 1

CountedStep ==
    /\ (Training /\ i < epochs) => pc' = "loop" /\ i' = i + 1 /\ Len(l1') = Len(l1) + 1
    /\ (Training /\ i = epochs) => pc' # "loop" /\ i' = i /\ l1' = l1

\* C4: each method makes exactly its fixed number of updates and then ends:
\* the budget is the literal of the cell, every step taken while i < epochs
\* is another update whatever the traces hold, and the step taken at
\* i = epochs leaves the loop.
C4_FixedBudget == []BudgetShape /\ [][CountedStep]_vars

C4_Witness ==
    /\ Finished /\ FinishedMethod = 1 /\ i = epochs /\ epochs >= 2
    /\ \E k \in 1..Len(sine_errors) : sine_errors[k].nan

TraceShape ==
    /\ Training =>
          /\ Len(sine_errors) = i + 1 /\ Len(l1) = i + 1
          /\ sine_errors[i + 1] = SineError(Current, sparse_vector)
          /\ l1[i + 1] = Norm1(Current)
          /\ Len(iterations) = epochs + 1
    /\ ((Training /\ i = epochs) \/ Finished) =>
          Len(sine_errors) = Len(iterations) /\ Len(l1) = Len(iterations)

AppendOnly ==
    Training => IsPrefix(sine_errors, sine_errors') /\ IsPrefix(l1, l1')

\* C5: the two traces grow in lockstep and only by appending; after k updates
\* both have k + 1 entries, the last one the metric of the current
\* parameters; at the end their length is that of iterations, epochs + 1.
C5_Traces == []TraceShape /\ [][AppendOnly]_vars

C5_Witness ==
    /\ Training /\ method = 1 /\ i = epochs /\ epochs >= 2
    /\ l1[1] # l1[2] /\ l1[2] # l1[3]
    /\ Len(sine_errors) = Len(iterations)

FreshParams ==
    /\ \E r \in 0..MaxSeed : draw = Draws(method, r)
    /\ IF method = 5
       THEN u = Renormalise(draw.u, draw.v).u /\ v = Renormalise(draw.u, draw.v).v
       ELSE u = draw.u /\ v = draw.v /\ w = draw.w

Fresh ==
    /\ pc = "setup" => FreshParams
    /\ (Training /\ i = 0) =>
          /\ FreshParams
          /\ sine_errors = <<SineError(Current, sparse_vector)>>
          /\ l1 = <<Norm1(Current)>>

DataFrame == Generated => UNCHANGED <<X, S, Z, sparse_vector>>

\* C7: no method changes X, S, Z or the signal vector, and each method starts
\* from parameters drawn in its own cell (u, v, w for methods 1-4; u, v for
\* the Hadamard method) and from traces holding only its own first entry.
C7_Isolation == []Fresh /\ [][DataFrame]_vars

C7_Witness ==
    /\ Training /\ method = 3 /\ i = 0 /\ Len(output) >= 2
    /\ w = draw.w /\ Len(l1) = 1

\* C8: a run scored against another signal vector has the same parameters
\* and gradients at every step.
C8_SignalNotFed ==
    twin.u = u /\ twin.v = v /\ twin.w = w /\ twin.grad = grad

C8_Witness ==
    /\ Training /\ i >= 2 /\ v # draw.v
    /\ twin.sparse_vector # sparse_vector
    /\ twin.sine_errors # sine_errors

InHadamard == method = 5 /\ pc \in {"setup", "loop", "end"}

\* C2 as stated: after the initial normalisation and after every
\* renormalisation, ||u * v|| = 1.
C2_UnitNormExact == InHadamard => Norm(Had(u, v)) = One

\* C2 amended: ||u * v|| = 1 to within rounding, NormTol units in the last
\* place.
C2_UnitNormRounded == InHadamard => Abs(Norm(Had(u, v)) - One) <= NormTol

C2_Witness ==
    /\ method = 5 /\ Training /\ i >= 2
    /\ \E j \in 1..p : u[j] # 0 /\ v[j] # 0
    /\ Norm(Had(draw.u, draw.v)) > One + NormTol
    /\ Norm(Had(u, v)) # One

\* C9: the matrix of the Hadamard objective is the sample covariance
\* (1/n) X^T X.
C9_SampleCovariance == InHadamard => HadamardMatrix = SampleCovariance(X, n)

NonZero(a) == \E j \in 1..Len(a) : a[j] # 0

\* C3: for every nonzero recovered vector and nonzero signal vector the
\* sine error is a number in [0, 1].
C3_SineErrorRange ==
    (Training /\ NonZero(sparse_vector) /\ NonZero(Current))
    => /\ ~sine_errors[Len(sine_errors)].nan
       /\ sine_errors[Len(sine_errors)].val \in 0..One

\* C11: for every nonzero recovered vector r, nonzero scalar c and nonzero
\* signal vector, the sine error of c * r is the sine error of r.
C11_ScaleInvariant ==
    (Training /\ NonZero(sparse_vector) /\ NonZero(Current))
    => twin.sine_errors = sine_errors

Descending == Training /\ method \in 1..4
Cleared(g, len) == g = <<>> \/ g = Zeros(len)

ClearGrads ==
    Descending => /\ Cleared(grad.u, Len(u))
                  /\ Cleared(grad.v, Len(v))
                  /\ Cleared(grad.w, Len(w))

PlainStep ==
    (Descending /\ i < epochs) =>
        LET g == Gradient(method, X, Run)
        IN  /\ u' = Descend(u, g.u, step_size)
            /\ v' = Descend(v, g.v, step_size)
            /\ w' = Descend(w, g.w, step_size)
            /\ grad' = [u |-> Zeros(Len(u)), v |-> Zeros(Len(v)), w |-> Zeros(Len(w))]
            /\ ExtraZero(method, Record(method, GradientStep(Backward(method, X, Run), step_size)))
                 = Record(method, GradientStep(Backward(method, X, Run), step_size))

\* C12: in methods 1-4 the gradients of u, v and w are zero or unset at the
\* start of every pass, the update of a pass subtracts step_size times the
\* gradient of the loss at the parameters the pass started from, all three
\* taken at those same parameters, and the two extra zero_() calls of
\* Method 1 change nothing.
C12_FreshGradient == []ClearGrads /\ [][PlainStep]_vars

C12_Witness ==
    /\ Descending /\ method = 1 /\ i >= 2
    /\ grad.u = Zeros(Len(u)) /\ grad.v = Zeros(Len(v))
    /\ u # draw.u /\ v # draw.v /\ w # draw.w

Ascending == Training /\ method = 5

SimultaneousThenProject ==
    (Ascending /\ i < epochs) =>
        LET q  == [a \in 1..p |-> Sum([b \in 1..p |-> FMul(S[a][b] + S[b][a], FMul(u[b], v[b]))])]
            u1 == [j \in 1..p |-> u[j] + Scaled(FMul(v[j], q[j]), step_size)]
            v1 == [j \in 1..p |-> v[j] + Scaled(FMul(u[j], q[j]), step_size)]
            r  == FSqrt(Norm(Had(u1, v1)))
        IN  /\ u' = [j \in 1..p |-> FDiv(u1[j], r)]
            /\ v' = [j \in 1..p |-> FDiv(v1[j], r)]

\* C13: a pass of the Hadamard loop takes du = v * ((S + S^T)(u * v)) and
\* dv = u * ((S + S^T)(u * v)) at the u and v the pass started from, adds
\* step_size times each, and only then divides both by the square root of
\* the norm of the product of the updated pair.
C13_AscentThenProjection == [][SimultaneousThenProject]_vars

C13_Witness ==
    /\ Ascending /\ i >= 2 /\ p >= 2
    /\ step_size = StepSizeOf(5)
    /\ u # Renormalise(draw.u, draw.v).u
    /\ v # Renormalise(draw.u, draw.v).v

ClaimedInterval(m) == IF m \in {1, 3} THEN 100 ELSE 1000
LossNow == IF method = 5 THEN Quadratic(S, Run) ELSE Objective(method, X, Run)
Periodic(k, m) == (k + ClaimedInterval(m) - 1) \div ClaimedInterval(m)

ProgressLines ==
    /\ Training =>
          /\ Len(output) = Periodic(i, method)
          /\ \A j \in 1..Len(output) :
                output[j].method = method /\ output[j].epoch = (j - 1) * ClaimedInterval(method)
    /\ Finished =>
          /\ Len(output) = Periodic(epochs, FinishedMethod) + 1
          /\ output[Len(output)].epoch = epochs
          /\ \A j \in 1..(Len(output) - 1) :
                output[j].epoch = (j - 1) * ClaimedInterval(FinishedMethod)

EmitStep ==
    /\ (Training /\ i < epochs) =>
          /\ output' = IF i % ClaimedInterval(method) = 0
                       THEN Append(output, Line(method, i, LossNow))
                       ELSE output
          /\ Run' = IF method = 5 THEN HadamardBody(S, step_size, Run)
                    ELSE DescentBody(method, X, step_size, Run)
    /\ (Training /\ i = epochs) =>
          /\ output' = Append(output, Line(method, epochs, LossNow))
          /\ Run' = Run

\* C14: a progress line is emitted exactly in the passes i of 0..epochs-1
\* with i mod interval = 0 (100 for methods 1 and 3, 1000 for the others),
\* carrying the loss or objective of the parameters the pass starts from; one
\* last line labelled epochs carries the value at the final parameters; no
\* line changes a parameter or a trace.
C14_ProgressLines == []ProgressLines /\ [][EmitStep]_vars

C14_Witness ==
    /\ Finished /\ FinishedMethod = 1
    /\ Len(output) = 4
    /\ output[2].epoch = 100 /\ output[3].epoch = 200 /\ output[4].epoch = epochs
    /\ output[2].value # output[1].value /\ output[4].value # output[3].value

\* the recovered vector has norm zero, or the division by a zero norm has
\* left it without a value
Undefined(rec) == ~Finite(rec) \/ \A j \in 1..Len(rec) : rec[j] = 0

UndefinedAppended ==
    /\ (Training /\ Undefined(Current)) =>
          /\ Len(sine_errors) = i + 1
          /\ sine_errors[i + 1] = NaN
          /\ i <= epochs /\ epochs = Budget(method)
    /\ Finished => i = epochs /\ epochs = Budget(FinishedMethod)
                     /\ Len(sine_errors) = epochs + 1

UndefinedStep ==
    (Training /\ Undefined(Current)) =>
        IF i < epochs
        THEN /\ pc' = "loop" /\ i' = i + 1
             /\ Len(sine_errors') = Len(sine_errors) + 1
             /\ IsPrefix(sine_errors, sine_errors')
             /\ method \in 1..4 =>
                   LET g == Gradient(method, X, Run)
                   IN  /\ u' = Descend(u, g.u, step_size)
                       /\ v' = Descend(v, g.v, step_size)
                       /\ w' = Descend(w, g.w, step_size)
        ELSE pc' \in {"params", "end"} /\ sine_errors' = sine_errors

\* C15: when the recovered vector has norm zero the sine error is undefined
\* and NaN is appended to the trace like any value; the next pass is taken
\* all the same, in methods 1-4 with the update the gradient gives, and the
\* loop runs to its full budget.
C15_SilentNaN == []UndefinedAppended /\ [][UndefinedStep]_vars

C15_Witness ==
    /\ Finished /\ FinishedMethod = 1 /\ epochs >= 2
    /\ l1[1] = 0 /\ sine_errors[1] = NaN
    /\ Len(sine_errors) = epochs + 1
    /\ v # draw.v

====
